---- MODULE Spec2Model ----
(***************************************************************************)
(* Model of "case 3/main.py": a FastAPI service with one route,            *)
(* POST /recommend, that forwards patient data to an LLM chain             *)
(* (prompt | llm | parser) and maps the outcome to an HTTP response.       *)
(*                                                                         *)
(* Strings are sequences of characters.  JSON values are tagged records    *)
(* with a uniform shape: t is the JSON type, s the string payload, n the   *)
(* integer payload and l the list-of-strings payload.                      *)
(***************************************************************************)
EXTENDS Integers, Sequences, FiniteSets, TLC

\* ---------------------------------------------------------------- bounds
NumRequests == 3
MaxSymptoms == 3

\* ------------------------------------------------------------ input sets
Requests == 1..NumRequests
\* symptom strings: empty, one character, the separator's comma, two characters
Symptoms == {<<>>, <<"a">>, <<",">>, <<"a", "b">>}
Genders == {<<"m">>, <<"f">>}
Ages == {7, 40}

RECURSIVE SeqsUpTo(_, _)
SeqsUpTo(S, n) ==
    IF n = 0 THEN {<<>>}
    ELSE LET shorter == SeqsUpTo(S, n - 1)
         IN  shorter \cup {Append(q, x) : q \in {p \in shorter : Len(p) = n - 1}, x \in S}

\* ----------------------------------------------------------- JSON values
JStr(s) == [t |-> "str", s |-> s, n |-> 0, l |-> <<>>]
JInt(n) == [t |-> "int", s |-> <<>>, n |-> n, l |-> <<>>]
JList(l) == [t |-> "list", s |-> <<>>, n |-> 0, l |-> l]
JNull == [t |-> "null", s |-> <<>>, n |-> 0, l |-> <<>>]
JMissing == [t |-> "missing", s |-> <<>>, n |-> 0, l |-> <<>>]

\* ------------------------------------------------ request bodies (inputs)
RawBody(g, a, sy) == [gender |-> g, age |-> a, symptoms |-> sy]

ValidRawBodies(G, A, S, n) ==
    {RawBody(JStr(g), JInt(a), JList(sy)) : g \in G, a \in A, sy \in SeqsUpTo(S, n)}

\* a body the framework rejects: the symptoms field is missing
BodyWithoutSymptoms == RawBody(JStr(<<"m">>), JInt(40), JMissing)

\* bodies the framework rejects: a missing field, a non-integer age,
\* symptoms that are not a list, a gender that is not a string
InvalidRawBodies ==
    { BodyWithoutSymptoms,
      RawBody(JStr(<<"m">>), JStr(<<"a">>), JList(<< <<"a">> >>)),
      RawBody(JStr(<<"f">>), JInt(7), JStr(<<"a">>)),
      RawBody(JNull, JInt(7), JList(<<>>)) }

\* bodies of the concurrent specification
ConcRawBodies ==
    ValidRawBodies({<<"m">>}, {40}, {<<"a">>}, 1) \cup {BodyWithoutSymptoms}

\* bodies of the single-request specification
RichRawBodies ==
    ValidRawBodies(Genders, Ages, Symptoms, MaxSymptoms)
        \cup InvalidRawBodies

\* ------------------------------------------------------ LLM outcomes
\* kind: "error"       the call to the provider raised
\*       "unparseable" the text is not JSON
\*       "nondict"     JSON, but not an object
\*       "dict"        a JSON object; dept / extra are the values of the keys
\*                     recommended_department / one additional key
LLMOut(k, d, e) == [kind |-> k, dept |-> d, extra |-> e]

DeptValues == {JMissing, JNull, JInt(5), JStr(<<>>), JStr(<<"N">>)}

LLMOutputs ==
    { LLMOut("error", JMissing, JMissing),
      LLMOut("unparseable", JMissing, JMissing),
      LLMOut("nondict", JMissing, JMissing) }
    \cup {LLMOut("dict", d, e) : d \in DeptValues, e \in {JMissing, JStr(<<"x">>)}}

\* outcomes of the concurrent specification
ConcLLMOutputs ==
    { LLMOut("error", JMissing, JMissing),
      LLMOut("unparseable", JMissing, JMissing),
      LLMOut("dict", JMissing, JMissing),
      LLMOut("dict", JStr(<<"N">>), JMissing),
      LLMOut("dict", JStr(<<>>), JStr(<<"x">>)) }

NoReply == LLMOut("none", JMissing, JMissing)

\* ------------------------------------------------------------- state
VARIABLES
    modulePc,        \* position of the module-level code (lines 15-95)
    GOOGLE_API_KEY,  \* the module global read at line 16
    appCreated,      \* app = FastAPI(...) and its /recommend route exist
    st,              \* per request: position of the request
    body,            \* per request: the JSON body the client sent
    chainInput,      \* per request: the handler's local chain_input
    llmCalls,        \* per request: calls made to recommendation_chain.ainvoke
    reply,           \* per request: what the LLM call of this request produced
    response         \* per request: the HTTP response sent to the client

vars == <<modulePc, GOOGLE_API_KEY, appCreated, st, body, chainInput, llmCalls,
          reply, response>>

\* ------------------------------------------------- module-level start-up
\* os.getenv returns None (present = FALSE) or the variable's string
EnvValue(p, v) == [present |-> p, val |-> v]
EnvValues == {EnvValue(FALSE, <<>>), EnvValue(TRUE, <<>>), EnvValue(TRUE, <<"k">>)}

\* mutant: tests only for None, so an empty key passes
OnlyNoneIsFalsy(key) == ~key.present

\* "not GOOGLE_API_KEY": None and the empty string are falsy
Falsy(key) == ~key.present \/ key.val = <<>>

\* load_dotenv(); GOOGLE_API_KEY = os.getenv("GOOGLE_API_KEY")
LoadEnv ==
    /\ modulePc = "load_env"
    /\ \E v \in EnvValues : GOOGLE_API_KEY' = v
    /\ modulePc' = "check_key"
    /\ UNCHANGED <<appCreated, st, body, chainInput, llmCalls, reply, response>>

\* if not GOOGLE_API_KEY: raise ValueError(...)
CheckApiKey ==
    /\ modulePc = "check_key"
    /\ modulePc' = IF Falsy(GOOGLE_API_KEY) THEN "crashed" ELSE "setup"
    /\ UNCHANGED <<GOOGLE_API_KEY, appCreated, st, body, chainInput, llmCalls,
                   reply, response>>

\* parser, llm, prompt, recommendation_chain, app = FastAPI(...), @app.post
CreateApp ==
    /\ modulePc = "setup"
    /\ appCreated' = TRUE
    /\ modulePc' = "serving"
    /\ UNCHANGED <<GOOGLE_API_KEY, st, body, chainInput, llmCalls, reply, response>>

\* ------------------------------------------- request schema (PatientInfo)
\* gender: str, age: int, symptoms: List[str], all required
PatientInfoValid(raw) ==
    /\ raw.gender.t = "str"
    /\ raw.age.t = "int"
    /\ raw.symptoms.t = "list"

PatientInfo(raw) ==
    [gender |-> raw.gender.s, age |-> raw.age.n, symptoms |-> raw.symptoms.l]

\* --------------------------------------------------------- chain input
\* sep.join(list): the elements in order, sep between neighbours
RECURSIVE Join(_, _)
Join(sep, list) ==
    IF list = <<>> THEN <<>>
    ELSE IF Len(list) = 1 THEN list[1]
    ELSE list[1] \o sep \o Join(sep, Tail(list))

\* mutant: joins with "," instead of ", "
SymptomsStringNoSpace(symptoms) == Join(<<",">>, symptoms)

\* ", ".join(patient_info.symptoms)
SymptomsString(symptoms) == Join(<<",", " ">>, symptoms)

ChainInput(patient_info) ==
    [gender |-> patient_info.gender,
     age |-> patient_info.age,
     symptoms |-> SymptomsString(patient_info.symptoms)]

NoChainInput == [gender |-> <<>>, age |-> 0, symptoms |-> <<>>]

\* the variables of the prompt template's human message
PromptVariables == {"gender", "age", "symptoms"}

\* ChatPromptTemplate raises KeyError when an input variable is missing
PromptFormats(chain_input) == PromptVariables \subseteq DOMAIN chain_input

\* ------------------------------------------------ results and exceptions
NoBody == [k \in {} |-> JMissing]

Raise(cls, status, detail) ==
    [raised |-> TRUE, cls |-> cls, status |-> status, detail |-> detail, value |-> NoBody]

Return(value) ==
    [raised |-> FALSE, cls |-> "", status |-> 200, detail |-> "", value |-> value]

\* Python class hierarchy of the exceptions that occur here
IsInstance(cls, base) ==
    \/ cls = base
    \/ base = "Exception"

ValidationFailedDetail == "LLM response validation failed"
ParseFailedDetail == "LLM output could not be parsed"
GenericDetail == "An internal server error occurred"
RequestInvalidDetail == "request validation error"

\* ------------------------------------------- LLM output schema (lines 43-44)
\* mutant: a str field that also takes numbers and defaults when absent
LLMDepartmentOutputLenient(raw) == raw.dept.t \in {"str", "int", "missing"}

\* mutant: a str field that refuses the empty string
LLMDepartmentOutputNonEmpty(raw) == raw.dept.t = "str" /\ raw.dept.s # <<>>

\* recommended_department is required and must be a string (pydantic 2: a
\* number, null, list or object is not coerced to str); other keys are ignored
LLMDepartmentOutputValid(raw) == raw.dept.t = "str"

\* LLMDepartmentOutput(**raw_response): the validated field, other keys dropped
LLMDepartmentOutput(raw) == [recommended_department |-> raw.dept]

\* ------------------------------------ response schema (lines 34-38)
\* mutant: the schema gains a second, defaulted field
DepartmentRecommendationFieldsTwo == {"recommended_department", "extra"}

DepartmentRecommendationFields == {"recommended_department"}

\* DepartmentRecommendation(recommended_department=...)
DepartmentRecommendation(recommended_department) ==
    [k \in DepartmentRecommendationFields |->
        IF k = "recommended_department" THEN recommended_department ELSE JNull]

\* ------------------------------------------------------- the handler
\* recommendation_chain.ainvoke once the provider has answered (line 126):
\* the provider call may raise, JsonOutputParser raises
\* OutputParserException on text that is not JSON
ChainResult(out) ==
    IF out.kind = "error" THEN Raise("Exception", 0, "")
    ELSE IF out.kind = "unparseable" THEN Raise("OutputParserException", 0, "")
    ELSE Return(NoBody)

\* lines 128-138, given the parsed raw_response
ValidateAndBuild(raw_response) ==
    IF raw_response.kind # "dict"
        THEN Raise("TypeError", 0, "")        \* ** applied to a non-mapping
    ELSE IF ~LLMDepartmentOutputValid(raw_response)
        \* except ValidationError: raise HTTPException(500, ...)
        THEN Raise("HTTPException", 500, ValidationFailedDetail)
    ELSE LET llm_response == LLMDepartmentOutput(raw_response)
             recommended_department == llm_response.recommended_department
         IN  Return(DepartmentRecommendation(recommended_department))

\* the try block from the await on (lines 126-138)
TryBody(out) ==
    IF ChainResult(out).raised THEN ChainResult(out) ELSE ValidateAndBuild(out)

\* mutant: the parse failure is answered with 502
ExceptClauses502(result) ==
    IF ~result.raised THEN result
    ELSE IF IsInstance(result.cls, "OutputParserException")
        THEN Raise("HTTPException", 502, ParseFailedDetail)
    ELSE IF IsInstance(result.cls, "Exception")
        THEN Raise("HTTPException", 500, GenericDetail)
    ELSE result

\* mutant: no clause for OutputParserException
ExceptClausesGenericOnly(result) ==
    IF ~result.raised THEN result
    ELSE IF IsInstance(result.cls, "Exception")
        THEN Raise("HTTPException", 500, GenericDetail)
    ELSE result

\* the except clauses of the outer try (lines 140-153), in order
ExceptClauses(result) ==
    IF ~result.raised THEN result
    ELSE IF IsInstance(result.cls, "OutputParserException")
        THEN Raise("HTTPException", 500, ParseFailedDetail)
    ELSE IF IsInstance(result.cls, "Exception")
        THEN Raise("HTTPException", 500, GenericDetail)
    ELSE result

\* what the framework sends for the handler's result: the returned model as
\* a 200 JSON object, a raised HTTPException as its status and detail
HttpResponse(result) ==
    [status |-> result.status, detail |-> result.detail, body |-> result.value]

\* the framework's answer to a body that fails PatientInfo validation
RequestInvalidResponse ==
    [status |-> 422, detail |-> RequestInvalidDetail, body |-> NoBody]

NoResponse == [status |-> 0, detail |-> "", body |-> NoBody]

\* POST /recommend arrives: the framework validates the body against
\* PatientInfo; the handler runs lines 118-126 up to the await
Receive(r, raw) ==
    /\ modulePc = "serving"
    /\ appCreated
    /\ st[r] = "idle"
    /\ body' = [body EXCEPT ![r] = raw]
    /\ IF ~PatientInfoValid(raw)
         THEN /\ st' = [st EXCEPT ![r] = "done"]
              /\ response' = [response EXCEPT ![r] = RequestInvalidResponse]
              /\ UNCHANGED <<chainInput, llmCalls>>
         ELSE LET chain_input == ChainInput(PatientInfo(raw))
              IN  /\ chainInput' = [chainInput EXCEPT ![r] = chain_input]
                  /\ IF PromptFormats(chain_input)
                       THEN /\ llmCalls' = [llmCalls EXCEPT ![r] = @ + 1]
                            /\ st' = [st EXCEPT ![r] = "awaiting"]
                            /\ UNCHANGED response
                       ELSE /\ st' = [st EXCEPT ![r] = "done"]
                            /\ response' = [response EXCEPT ![r] =
                                  HttpResponse(ExceptClauses(Raise("KeyError", 0, "")))]
                            /\ UNCHANGED llmCalls
    /\ UNCHANGED <<modulePc, GOOGLE_API_KEY, appCreated, reply>>

\* the provider's answer (or failure) for the call of request r
LLMReply(r, out) ==
    /\ st[r] = "awaiting"
    /\ reply' = [reply EXCEPT ![r] = out]
    /\ st' = [st EXCEPT ![r] = "replied"]
    /\ UNCHANGED <<modulePc, GOOGLE_API_KEY, appCreated, body, chainInput, llmCalls,
                   response>>

\* mutant: the result of the await is kept in a slot shared by all requests
AwaitedShared(r) ==
    LET have == {q \in Requests : reply[q] # NoReply}
    IN  reply[CHOOSE q \in have : \A p \in have : q <= p]

\* the value of "await recommendation_chain.ainvoke(chain_input)" in the
\* coroutine of request r
Awaited(r) == reply[r]

\* mutant: a failed call is made again
ResumeRetry(r) ==
    /\ st[r] = "replied"
    /\ IF ChainResult(Awaited(r)).raised /\ llmCalls[r] < 2
         THEN /\ llmCalls' = [llmCalls EXCEPT ![r] = @ + 1]
              /\ st' = [st EXCEPT ![r] = "awaiting"]
              /\ UNCHANGED response
         ELSE /\ st' = [st EXCEPT ![r] = "done"]
              /\ response' = [response EXCEPT ![r] =
                    HttpResponse(ExceptClauses(TryBody(Awaited(r))))]
              /\ UNCHANGED llmCalls
    /\ UNCHANGED <<modulePc, GOOGLE_API_KEY, appCreated, body, chainInput, reply>>

\* the coroutine of request r resumes after the await: lines 126-153
Resume(r) ==
    /\ st[r] = "replied"
    /\ st' = [st EXCEPT ![r] = "done"]
    /\ response' = [response EXCEPT ![r] =
          HttpResponse(ExceptClauses(TryBody(Awaited(r))))]
    /\ UNCHANGED <<modulePc, GOOGLE_API_KEY, appCreated, body, chainInput, llmCalls,
                   reply>>

\* ------------------------------------------------------ specifications
NoRawBody == RawBody(JMissing, JMissing, JMissing)

Init ==
    /\ modulePc = "load_env"
    /\ GOOGLE_API_KEY = EnvValue(FALSE, <<>>)
    /\ appCreated = FALSE
    /\ st = [r \in Requests |-> "idle"]
    /\ body = [r \in Requests |-> NoRawBody]
    /\ chainInput = [r \in Requests |-> NoChainInput]
    /\ llmCalls = [r \in Requests |-> 0]
    /\ reply = [r \in Requests |-> NoReply]
    /\ response = [r \in Requests |-> NoResponse]

\* any number of requests in flight at once
Next ==
    \/ LoadEnv
    \/ CheckApiKey
    \/ CreateApp
    \/ \E r \in Requests : \E raw \in ConcRawBodies : Receive(r, raw)
    \/ \E r \in Requests : \E out \in ConcLLMOutputs : LLMReply(r, out)
    \/ \E r \in Requests : Resume(r)

Spec == Init /\ [][Next]_vars

\* one request, bodies drawn from the larger set
NextOne ==
    \/ LoadEnv
    \/ CheckApiKey
    \/ CreateApp
    \/ \E raw \in RichRawBodies : Receive(1, raw)
    \/ \E out \in LLMOutputs : LLMReply(1, out)
    \/ Resume(1)

SpecOne == Init /\ [][NextOne]_vars

\* =============================================================== claims
Done(r) == st[r] = "done"
Handled(r) == Done(r) /\ PatientInfoValid(body[r])
DeptKey == "recommended_department"

\* C1: a 200 response is a JSON object with exactly the key
\* recommended_department, mapped to a string; every LLM object whose
\* recommended_department is a string gives such a response, whether or not
\* the object carries further keys.
C1_SuccessShape ==
    \A r \in Requests :
        /\ response[r].status = 200 =>
              /\ DOMAIN response[r].body = {DeptKey}
              /\ response[r].body[DeptKey].t = "str"
        /\ (Handled(r) /\ reply[r].kind = "dict" /\ reply[r].dept.t = "str") =>
              response[r].status = 200

C1_Witness ==
    \E r \in Requests :
        /\ Done(r)
        /\ response[r].status = 200
        /\ reply[r].extra # JMissing

\* C2: when the LLM output is not JSON, the response is 500 with the
\* 'LLM output could not be parsed' detail and carries no department.
C2_ParseFailureIs500 ==
    \A r \in Requests :
        (Done(r) /\ reply[r].kind = "unparseable") =>
            /\ response[r].status = 500
            /\ response[r].detail = ParseFailedDetail
            /\ response[r].body = NoBody

C2_Witness ==
    \E r \in Requests : Done(r) /\ reply[r].kind = "unparseable"

\* C3: when the LLM returns a JSON object without recommended_department, or
\* with one that is not a string, the response is 500 and never 200.
C3_SchemaFailureIs500 ==
    \A r \in Requests :
        (Done(r) /\ reply[r].kind = "dict" /\ reply[r].dept.t # "str") =>
            /\ response[r].status = 500
            /\ response[r].body = NoBody

C3_Witness ==
    /\ Done(1)
    /\ reply[1].kind = "dict"
    /\ reply[1].dept \in {JMissing, JInt(5)}

\* C4: with GOOGLE_API_KEY absent or empty the module never gets past the
\* key check: no application, no request handled, no LLM call.
C4_NoKeyNoService ==
    (~GOOGLE_API_KEY.present \/ GOOGLE_API_KEY.val = <<>>) =>
        /\ modulePc \in {"load_env", "check_key", "crashed"}
        /\ ~appCreated
        /\ \A r \in Requests : st[r] = "idle" /\ llmCalls[r] = 0

C4_Witness ==
    /\ modulePc = "crashed"
    /\ GOOGLE_API_KEY = EnvValue(TRUE, <<>>)

\* C5 as stated: every failed request is answered with status 500.
C5_EveryFailureIs500 ==
    \A r \in Requests :
        (Done(r) /\ response[r].status # 200) => response[r].status = 500

\* C5 amended: a body that fails PatientInfo validation is answered 422
\* before the handler runs; every failure of a request whose body is valid
\* is answered 500 with a non-empty detail; no other status occurs.
C5_FailureStatuses ==
    \A r \in Requests :
        Done(r) =>
            /\ response[r].status \in {200, 422, 500}
            /\ response[r].status = 422 <=> ~PatientInfoValid(body[r])
            /\ response[r].status # 200 => response[r].detail # ""

C5_Witness ==
    /\ Done(1)
    /\ PatientInfoValid(body[1])
    /\ response[1].status = 500
    /\ reply[1].kind = "unparseable"

\* C6: the LLM is called at most once per request, exactly once when the
\* body is valid, never when it is not; a request whose call has been
\* answered goes to its response without another call.
C6_NoRetries ==
    /\ [](\A r \in Requests :
            /\ llmCalls[r] <= 1
            /\ st[r] # "idle" =>
                  llmCalls[r] = (IF PatientInfoValid(body[r]) THEN 1 ELSE 0))
    /\ [][\A r \in Requests :
            (st[r] = "replied" /\ st'[r] # "replied") =>
                /\ st'[r] = "done"
                /\ llmCalls'[r] = llmCalls[r]]_vars

C6_Witness ==
    \E r \in Requests :
        /\ Done(r)
        /\ reply[r].kind = "error"
        /\ response[r].status = 500
        /\ llmCalls[r] = 1

\* C7: two requests with the same body whose calls got the same reply get
\* the same response, whatever else was handled in between.
C7_Independent ==
    \A r, q \in Requests :
        (Done(r) /\ Done(q) /\ body[r] = body[q] /\ reply[r] = reply[q]) =>
            response[r] = response[q]

C7_Witness ==
    \E r, q, p \in Requests :
        /\ r # q
        /\ Done(r) /\ Done(q) /\ Done(p)
        /\ body[r] = body[q] /\ reply[r] = reply[q]
        /\ PatientInfoValid(body[r])
        /\ response[r].status = 200
        /\ response[p].status = 500

\* offset of element i of list in the joined string
RECURSIVE JoinOffset(_, _)
JoinOffset(list, i) ==
    IF i = 1 THEN 0 ELSE JoinOffset(list, i - 1) + Len(list[i - 1]) + 2

\* J holds the elements of list in order, each followed by ", " except the last
IsCommaSpaceJoin(list, J) ==
    /\ list = <<>> => J = <<>>
    /\ Len(list) = 1 => J = list[1]
    /\ list # <<>> =>
          Len(J) = JoinOffset(list, Len(list)) + Len(list[Len(list)])
    /\ \A i \in 1..Len(list) :
          /\ SubSeq(J, JoinOffset(list, i) + 1, JoinOffset(list, i) + Len(list[i]))
                = list[i]
          /\ i < Len(list) =>
                /\ J[JoinOffset(list, i) + Len(list[i]) + 1] = ","
                /\ J[JoinOffset(list, i) + Len(list[i]) + 2] = " "

\* C8: the chain input of a request holds its gender and age unchanged and
\* its symptoms joined in order with ', '.
C8_ChainInput ==
    (st[1] # "idle" /\ PatientInfoValid(body[1])) =>
        /\ chainInput[1].gender = body[1].gender.s
        /\ chainInput[1].age = body[1].age.n
        /\ IsCommaSpaceJoin(body[1].symptoms.l, chainInput[1].symptoms)

C8_Witness ==
    /\ st[1] = "awaiting"
    /\ body[1].symptoms.l = << <<"a", "b">>, <<>>, <<",">> >>
    /\ chainInput[1].symptoms = <<"a", "b", ",", " ", ",", " ", ",">>

\* C9: when the parsed LLM output fails schema validation, the client gets
\* status 500 with the 'LLM response validation failed' detail.
C9_ValidationDetailKept ==
    \A r \in Requests :
        (Handled(r) /\ reply[r].kind = "dict" /\ reply[r].dept.t # "str") =>
            /\ response[r].status = 500
            /\ response[r].detail = ValidationFailedDetail

\* C10: a 200 response exists only after the request's one LLM call gave a
\* JSON object whose recommended_department is a string, and carries that
\* string unchanged; every such string, the empty one included, is a success.
C10_SuccessOnlyFromLLM ==
    \A r \in Requests :
        /\ response[r].status = 200 =>
              /\ llmCalls[r] = 1
              /\ reply[r].kind = "dict"
              /\ reply[r].dept.t = "str"
              /\ response[r].body[DeptKey] = reply[r].dept
        /\ (Handled(r) /\ reply[r].kind = "dict" /\ reply[r].dept.t = "str") =>
              /\ response[r].status = 200
              /\ response[r].body[DeptKey].s = reply[r].dept.s

C10_Witness ==
    /\ Done(1)
    /\ reply[1].dept = JStr(<<>>)
    /\ response[1].status = 200
    /\ response[1].body[DeptKey] = JStr(<<>>)

====
